---- MODULE Spec2Model ----
(***************************************************************************)
(* Atmo (src/atmo.py): a weather station that samples an indoor BME680 and *)
(* an optional outdoor W1ThermSensor and forwards the readings to Graphite *)
(* as StatsD datagrams over UDP.                                           *)
(*                                                                         *)
(* Three specifications share the variables.                               *)
(*   Spec      the process from the import of the module through main()    *)
(*             up to the test of line 177.  That test never falls through  *)
(*             (it returns when the outdoor handle is None and raises      *)
(*             NameError on the name sendor_indoor otherwise), so lines    *)
(*             180-184 are no part of Spec.                                *)
(*   SpecLoop  lines 181-184: initalize_indoor_sensor and the loop of      *)
(*             ensure_duration around capture_sample, for every pair of    *)
(*             arguments capture_sample accepts (each handle present or    *)
(*             None).  FairSpecLoop adds the progress of the one thread.   *)
(*   SpecInit  initalize_indoor_sensor called on a handle in any state.    *)
(* Time is counted in whole seconds; time.sleep(x) lasts x.                *)
(***************************************************************************)
EXTENDS Integers, Sequences, FiniteSets, TLC

VARIABLES
    pc,              \* control position (a line of src/atmo.py, by name)
    sensor_outdoor,  \* main's local: "None" or the handle
    sensor_indoor,   \* main's local: "None" or the handle
    cfg,             \* configuration registers of the indoor handle
    events,          \* sensor opens and sleeps of the bootstrap, in order
    log,             \* logger calls (of the bootstrap; of the current cycle)
    raised,          \* the exception that left main, if any
    elapsed,         \* time.monotonic() - time_start of the current cycle
    last,            \* the previous cycle: duration measured, sleeps issued, gap
    cycle,           \* cycles completed (saturates at MaxCycles)
    indoor_sample,   \* capture_sample's local: <<>> (None) or <<Sample>>
    outdoor_sample,  \* capture_sample's local: <<>> (unset) or <<Sample>>
    reads,           \* sensor reads of the current cycle, in order
    inits,           \* initalize_indoor_sensor calls of the current cycle
    init_calls,      \* their oversampling arguments and the registers they left
    sends,           \* sendto calls of the current cycle, in order
    socks,           \* UDP sockets open
    sockState        \* position inside send_metric

vars == <<pc, sensor_outdoor, sensor_indoor, cfg, events, log, raised, elapsed,
          last, cycle, indoor_sample, outdoor_sample, reads, inits, init_calls, sends, socks,
          sockState>>

loopVars ==
    <<elapsed, last, cycle, indoor_sample, outdoor_sample, reads, inits, init_calls, sends, socks,
      sockState>>

----------------------------------------------------------------------------
(* Bounds *)

\* recoverable failures of the indoor open before it must succeed or fail hard
MaxFailures == 4
\* longest a sensor read takes, in seconds
MaxReadTime == 1
\* cycles counted
MaxCycles == 2

----------------------------------------------------------------------------
(* Configuration, lines 17-34, and the driver's constants, line 12 *)

SENSORS_SAMPLE_INTERVAL == 5
GRAPHITE_TIMEOUT == 1
METRICS_PREFIX == "atmo"
METRIC_TEMPERATURE_INDOOR == "temperature_indoor"
METRIC_TEMPERATURE_OUTDOOR == "temperature_outdoor"
METRIC_PRESSURE == "pressure"
METRIC_HUMIDITY == "humidity"
DISABLE_GAS_MEAS == 0
OS_8X == 4

None == "None"
NoException == [exc |-> "", line |-> 0]
NoCfg == [gas |-> -1, hum |-> -1, temp |-> -1, pres |-> -1]
NoLast == [duration |-> -1, slept |-> <<>>, gap |-> -1]

\* the four send_metric calls of capture_sample, lines 148-150 and 155
SendPcs ==
    {"send_humidity", "send_pressure", "send_temperature_indoor",
     "send_temperature_outdoor"}

\* Python truth value of a handle: None is false, a driver object is true
Truthy(handle) == handle # None

----------------------------------------------------------------------------
(* Bootstrap: import, get_outdoor_sensor, get_indoor_sensor, main *)

\* what the constructors of the two drivers can do
OutdoorOpenOutcomes == {"ok", "NoSensorFoundError", "KernelModuleLoadError"}
IndoorOpenOutcomes == {"ok", "RuntimeError", "PermissionError", "FileNotFoundError"}

\* registers of a BME680 as its constructor leaves them
FreshCfgs ==
    {[gas |-> 1, hum |-> 2, temp |-> 4, pres |-> 3],
     [gas |-> 1, hum |-> 0, temp |-> 0, pres |-> 0]}

Event(op, res, secs) == [op |-> op, res |-> res, secs |-> secs]

\* line 62: except (RuntimeError, PermissionError)
RecoverableDropPermission(e) == e = "RuntimeError"
Recoverable(e) == e \in {"RuntimeError", "PermissionError"}

\* lines 73-76: any exception of the constructor yields None
OutdoorHandleStrict(outcome) == "w1therm"
OutdoorHandle(outcome) == IF outcome = "ok" THEN "w1therm" ELSE None

Failures(evs) ==
    Cardinality({i \in 1..Len(evs) : evs[i].op = "open_indoor" /\ evs[i].res # "ok"})

\* line 69: the annotation Opitonal[OutdoorSensor] is evaluated when the def
\* statement runs (NameError: the import fails) unless the interpreter defers
\* annotations
ModuleLoad ==
    /\ pc = "import"
    /\ \E eager \in BOOLEAN :
          IF eager
          THEN /\ pc' = "crashed"
               /\ raised' = [exc |-> "NameError", line |-> 69]
          ELSE /\ pc' = "main"
               /\ UNCHANGED raised
    /\ UNCHANGED <<sensor_outdoor, sensor_indoor, cfg, events, log>>
    /\ UNCHANGED loopVars

\* line 175, get_outdoor_sensor
GetOutdoorSensor ==
    /\ pc = "main"
    /\ \E o \in OutdoorOpenOutcomes :
          /\ sensor_outdoor' = OutdoorHandle(o)
          /\ events' = Append(events, Event("open_outdoor", o, 0))
    /\ pc' = "indoor_open"
    /\ UNCHANGED <<sensor_indoor, cfg, log, raised>>
    /\ UNCHANGED loopVars

\* line 176, get_indoor_sensor: one pass of the while loop up to the return,
\* the except clause or the propagation of another exception
IndoorOpen ==
    /\ pc = "indoor_open"
    /\ \E o \in IndoorOpenOutcomes :
          /\ Recoverable(o) => Failures(events) < MaxFailures
          /\ events' = Append(events, Event("open_indoor", o, 0))
          /\ IF o = "ok"
             THEN /\ sensor_indoor' = "bme680"
                  /\ \E c \in FreshCfgs : cfg' = c
                  /\ pc' = "check"
                  /\ UNCHANGED <<log, raised>>
             ELSE IF Recoverable(o)
             THEN /\ log' = Append(log, "Sensor not found. Retrying")
                  /\ pc' = "indoor_sleep"
                  /\ UNCHANGED <<sensor_indoor, cfg, raised>>
             ELSE /\ raised' = [exc |-> o, line |-> 61]
                  /\ pc' = "crashed"
                  /\ UNCHANGED <<sensor_indoor, cfg, log>>
    /\ UNCHANGED sensor_outdoor
    /\ UNCHANGED loopVars

\* lines 64-65: time.sleep(error_interval); continue
IndoorRetrySleep ==
    /\ pc = "indoor_sleep"
    /\ events' = Append(events, Event("sleep", "", SENSORS_SAMPLE_INTERVAL))
    /\ pc' = "indoor_open"
    /\ UNCHANGED <<sensor_outdoor, sensor_indoor, cfg, log, raised>>
    /\ UNCHANGED loopVars

\* line 177: not (sensor_outdoor and sendor_indoor).  `and` evaluates its right
\* operand only when the left one is true, and the right operand is a name
\* that is bound nowhere.
AcquireTest(outdoor, indoor) ==
    IF Truthy(outdoor) THEN "NameError" ELSE "abort"

\* lines 177-179
AcquireCheck ==
    /\ pc = "check"
    /\ IF AcquireTest(sensor_outdoor, sensor_indoor) = "abort"
       THEN /\ log' = Append(log, "Unable to acquire any sensor, exiting")
            /\ pc' = "returned"
            /\ UNCHANGED raised
       ELSE /\ raised' = [exc |-> "NameError", line |-> 177]
            /\ pc' = "crashed"
            /\ UNCHANGED log
    /\ UNCHANGED <<sensor_outdoor, sensor_indoor, cfg, events>>
    /\ UNCHANGED loopVars

Init ==
    /\ pc = "import"
    /\ sensor_outdoor = None
    /\ sensor_indoor = None
    /\ cfg = NoCfg
    /\ events = <<>>
    /\ log = <<>>
    /\ raised = NoException
    /\ elapsed = 0
    /\ last = NoLast
    /\ cycle = 0
    /\ indoor_sample = <<>>
    /\ outdoor_sample = <<>>
    /\ reads = <<>>
    /\ inits = 0
    /\ init_calls = <<>>
    /\ sends = <<>>
    /\ socks = 0
    /\ sockState = "idle"

Next ==
    \/ ModuleLoad
    \/ GetOutdoorSensor
    \/ IndoorOpen
    \/ IndoorRetrySleep
    \/ AcquireCheck

Spec == Init /\ [][Next]_vars

----------------------------------------------------------------------------
(* Properties of the bootstrap, under Spec *)

LoopPcs ==
    {"cycle_start", "capture", "indoor_read", "indoor_branch", "outdoor_test",
     "outdoor_read", "cycle_end"} \cup SendPcs

\* line 177 has been evaluated
AcquireChecked ==
    \/ pc = "returned"
    \/ pc = "crashed" /\ raised.line = 177
    \/ pc \in LoopPcs

FatalLogged ==
    \E i \in 1..Len(log) : log[i] = "Unable to acquire any sensor, exiting"

\* C1: once both handles have been acquired, main logs the fatal error and
\* returns without entering the loop exactly when both handles are None; with
\* at least one handle it initializes the indoor handle and enters the loop.
C1_AbortIffBothAbsent ==
    AcquireChecked =>
        IF sensor_outdoor = None /\ sensor_indoor = None
        THEN pc = "returned" /\ FatalLogged
        ELSE pc \in LoopPcs /\ ~FatalLogged

\* the opens of the indoor sensor and the sleeps, without the outdoor open
IndoorEvents == SelectSeq(events, LAMBDA e : e.op # "open_outdoor")

\* get_indoor_sensor has returned
IndoorAcquired == pc \in {"check", "returned"} \/ (pc = "crashed" /\ raised.line = 177)

\* C3: get_indoor_sensor retries on RuntimeError and PermissionError: when the
\* first k opens fail so and open k+1 succeeds it has slept exactly k times,
\* each time for the retry interval and each time between a failed open and
\* the next open, and returns a handle; it never returns None and never lets
\* one of the two exceptions out.
C3_IndoorAcquireRetries ==
    /\ raised.exc \notin {"RuntimeError", "PermissionError"}
    /\ \A i \in 1..Len(IndoorEvents) :
          IF i % 2 = 1
          THEN IndoorEvents[i].op = "open_indoor"
          ELSE /\ IndoorEvents[i].op = "sleep"
               /\ IndoorEvents[i].secs = SENSORS_SAMPLE_INTERVAL
               /\ IndoorEvents[i - 1].res \in {"RuntimeError", "PermissionError"}
    /\ \A i \in 1..(Len(IndoorEvents) - 1) :
          IndoorEvents[i].op = "open_indoor" =>
              /\ IndoorEvents[i].res \in {"RuntimeError", "PermissionError"}
              /\ IndoorEvents[i + 1].op = "sleep"
    /\ IndoorAcquired =>
          /\ sensor_indoor = "bme680"
          /\ Len(IndoorEvents) = 2 * Failures(events) + 1
          /\ IndoorEvents[Len(IndoorEvents)].res = "ok"
          /\ Cardinality({i \in 1..Len(IndoorEvents) : IndoorEvents[i].op = "sleep"})
                = Failures(events)

\* the open failed twice, once each way, and the third open succeeded
C3_Witness ==
    /\ pc = "check"
    /\ Len(IndoorEvents) = 5
    /\ IndoorEvents[1].res = "RuntimeError"
    /\ IndoorEvents[3].res = "PermissionError"
    /\ IndoorEvents[5].res = "ok"
    /\ IndoorEvents[2].secs = SENSORS_SAMPLE_INTERVAL

----------------------------------------------------------------------------
(* The cycle: initalize_indoor_sensor, get_indoor_sample, get_outdoor_sample, *)
(* send_metric, capture_sample, ensure_duration                               *)

\* what the drivers' reads and the socket's sendto can do
IndoorReadOutcomes == {"data", "nodata", "OSError"}
OutdoorReadOutcomes == {"ok", "SensorNotReadyError"}
SendOutcomes == {"ok", "unreachable", "timeout"}

\* sensor.data after a read with new data (its humidity and pressure are
\* Optional, lines 47-48); sensor.get_temperature()
IndoorData ==
    {[temperature |-> "21.5", humidity |-> "40.2", pressure |-> "1013.0"],
     [temperature |-> "19.0", humidity |-> "55.1", pressure |-> "998.4"],
     [temperature |-> "22.3", humidity |-> None, pressure |-> "1002.7"],
     [temperature |-> "20.8", humidity |-> "47.9", pressure |-> None]}
OutdoorTemperatures == {"18.0", "-3.2"}

\* lines 44-48
Sample(temperature, humidity, pressure) ==
    [temperature |-> temperature, humidity |-> humidity, pressure |-> pressure]

\* lines 83-86
InitializeKeepGas(c, oversampling) ==
    [gas |-> c.gas, hum |-> oversampling, temp |-> oversampling, pres |-> oversampling]
InitializeRaiseOversampling(c, oversampling) ==
    [gas |-> DISABLE_GAS_MEAS, hum |-> c.hum + oversampling,
     temp |-> c.temp + oversampling, pres |-> c.pres + oversampling]
Initialize(c, oversampling) ==
    [gas |-> DISABLE_GAS_MEAS, hum |-> oversampling, temp |-> oversampling,
     pres |-> oversampling]

\* one call of initalize_indoor_sensor, as recorded
InitCall(oversampling, before, after) ==
    [oversampling |-> oversampling, before |-> before, after |-> after]

\* lines 95-96: the except clause of get_indoor_sample runs initalize_indoor_sensor
ReinitNever(outcome) == FALSE
Reinit(outcome) == outcome = "OSError"

\* lines 97-104: the value get_indoor_sample returns, None as <<>>
IndoorResultStale(outcome, data) ==
    IF outcome \in {"data", "nodata"}
    THEN <<Sample(data.temperature, data.humidity, data.pressure)>>
    ELSE <<>>
IndoorResult(outcome, data) ==
    IF outcome = "data"
    THEN <<Sample(data.temperature, data.humidity, data.pressure)>>
    ELSE <<>>

\* line 130: the datagram
Format(prefix, metric_name, metric_value, metric_type) ==
    prefix \o "." \o metric_name \o ":" \o metric_value \o "|" \o metric_type

\* line 133: except OSError (socket.timeout and the unreachable network are both)
CaughtOnlyUnreachable(outcome) == outcome = "unreachable"
Caught(outcome) == outcome \in {"unreachable", "timeout"}

\* lines 136-137: finally: sock.close()
SocksAfterSendCloseOnSuccess(n, outcome) == IF outcome = "ok" THEN n - 1 ELSE n
SocksAfterSend(n, outcome) == n - 1

\* lines 166-168: the sleeps ensure_duration issues
IdleSleepAlways(duration, expected_duration) == <<expected_duration>>
IdleSleepUnguarded(duration, expected_duration) == <<expected_duration - duration>>
IdleSleep(duration, expected_duration) ==
    IF duration < expected_duration THEN <<expected_duration - duration>> ELSE <<>>

\* lines 148-150, 155: the arguments of the send_metric call at a position
MetricSwapped(at) ==
    CASE at = "send_humidity" -> <<METRIC_HUMIDITY, indoor_sample[1].pressure>>
      [] at = "send_pressure" -> <<METRIC_PRESSURE, indoor_sample[1].humidity>>
      [] at = "send_temperature_indoor" ->
            <<METRIC_TEMPERATURE_INDOOR, indoor_sample[1].temperature>>
      [] at = "send_temperature_outdoor" ->
            <<METRIC_TEMPERATURE_OUTDOOR, outdoor_sample[1].temperature>>
Metric(at) ==
    CASE at = "send_humidity" -> <<METRIC_HUMIDITY, indoor_sample[1].humidity>>
      [] at = "send_pressure" -> <<METRIC_PRESSURE, indoor_sample[1].pressure>>
      [] at = "send_temperature_indoor" ->
            <<METRIC_TEMPERATURE_INDOOR, indoor_sample[1].temperature>>
      [] at = "send_temperature_outdoor" ->
            <<METRIC_TEMPERATURE_OUTDOOR, outdoor_sample[1].temperature>>

\* the statement after the send_metric call at a position
AfterSendResendOutdoor(at) ==
    CASE at = "send_humidity" -> "send_pressure"
      [] at = "send_pressure" -> "send_temperature_indoor"
      [] at = "send_temperature_indoor" -> "outdoor_test"
      [] at = "send_temperature_outdoor" -> "send_temperature_outdoor"
AfterSend(at) ==
    CASE at = "send_humidity" -> "send_pressure"
      [] at = "send_pressure" -> "send_temperature_indoor"
      [] at = "send_temperature_indoor" -> "outdoor_test"
      [] at = "send_temperature_outdoor" -> "cycle_end"

\* line 146: if indoor_sensor
ReadsIndoorAlways(indoor) == TRUE
ReadsIndoor(indoor) == Truthy(indoor)

\* line 153: if outdoor_sensor
ReadsOutdoorOnlyAfterIndoor(outdoor, got) == Truthy(outdoor) /\ got # <<>>
ReadsOutdoor(outdoor, got) == Truthy(outdoor)

\* lines 182-183, 163: the with statement is entered; time_start = time.monotonic()
CycleStart ==
    /\ pc = "cycle_start"
    /\ last' = IF last.duration = -1 THEN last ELSE [last EXCEPT !.gap = elapsed]
    /\ elapsed' = 0
    /\ indoor_sample' = <<>>
    /\ outdoor_sample' = <<>>
    /\ reads' = <<>>
    /\ inits' = 0
    /\ init_calls' = <<>>
    /\ sends' = <<>>
    /\ log' = <<>>
    /\ pc' = "capture"
    /\ UNCHANGED <<sensor_outdoor, sensor_indoor, cfg, events, raised, cycle, socks,
                   sockState>>

\* lines 184, 146
IndoorTest ==
    /\ pc = "capture"
    /\ pc' = IF ReadsIndoor(sensor_indoor) THEN "indoor_read" ELSE "outdoor_test"
    /\ UNCHANGED <<sensor_outdoor, sensor_indoor, cfg, events, log, raised>>
    /\ UNCHANGED loopVars

\* line 94: the registers of the handle after a get_sensor_data that raised
\* OSError: as they were, or as a reset of the chip leaves them
FaultCfgs(c) == {c} \cup FreshCfgs

\* line 147, get_indoor_sample (lines 93-104): get_sensor_data returns True
\* ("data") or False ("nodata") or raises; what the except clause does not
\* catch leaves get_indoor_sample, capture_sample and main
IndoorRead ==
    /\ pc = "indoor_read"
    /\ \E o \in IndoorReadOutcomes, d \in IndoorData, t \in 0..MaxReadTime :
          /\ reads' = Append(reads, [sensor |-> "indoor", res |-> o, cfg |-> cfg])
          /\ elapsed' = elapsed + t
          /\ IF Reinit(o)
             THEN \E c \in FaultCfgs(cfg) :
                     /\ cfg' = Initialize(c, OS_8X)
                     /\ inits' = inits + 1
                     /\ init_calls' =
                           Append(init_calls, InitCall(OS_8X, c, Initialize(c, OS_8X)))
             ELSE UNCHANGED <<cfg, inits, init_calls>>
          /\ IF o \in {"data", "nodata"} \/ Reinit(o)
             THEN /\ indoor_sample' = IndoorResult(o, d)
                  /\ pc' = "indoor_branch"
                  /\ UNCHANGED raised
             ELSE /\ raised' = [exc |-> o, line |-> 94]
                  /\ pc' = "crashed"
                  /\ UNCHANGED indoor_sample
    /\ UNCHANGED <<sensor_outdoor, sensor_indoor, events, log, last, cycle,
                   outdoor_sample, sends, socks, sockState>>

\* lines 147, 151-152: the test of the walrus expression and the else branch
IndoorBranch ==
    /\ pc = "indoor_branch"
    /\ IF indoor_sample # <<>>
       THEN /\ pc' = "send_humidity"
            /\ UNCHANGED log
       ELSE /\ log' = Append(log, "Unable to read data from the indoor sensor")
            /\ pc' = "outdoor_test"
    /\ UNCHANGED <<sensor_outdoor, sensor_indoor, cfg, events, raised>>
    /\ UNCHANGED loopVars

\* lines 126-127: socket.socket(...); sock.settimeout(timeout)
SocketOpen ==
    /\ pc \in SendPcs
    /\ sockState = "idle"
    /\ socks' = socks + 1
    /\ sockState' = "open"
    /\ UNCHANGED <<pc, sensor_outdoor, sensor_indoor, cfg, events, log, raised, elapsed,
                   last, cycle, indoor_sample, outdoor_sample, reads, inits, init_calls, sends>>

\* lines 129-135: sock.sendto(...), which a timeout delays by the timeout
SendTo ==
    /\ pc \in SendPcs
    /\ sockState = "open"
    /\ \E o \in SendOutcomes :
          /\ sends' = Append(sends,
                 [at |-> pc, name |-> Metric(pc)[1], value |-> Metric(pc)[2],
                  payload |-> Format(METRICS_PREFIX, Metric(pc)[1], Metric(pc)[2], "g"),
                  res |-> o])
          /\ elapsed' = elapsed + (IF o = "timeout" THEN GRAPHITE_TIMEOUT ELSE 0)
          /\ sockState' = o
    /\ UNCHANGED <<pc, sensor_outdoor, sensor_indoor, cfg, events, log, raised, last,
                   cycle, indoor_sample, outdoor_sample, reads, inits, init_calls, socks>>

\* lines 133-137: the except clause, the finally clause, and the return or the
\* propagation of what the except clause did not catch
SocketClose ==
    /\ pc \in SendPcs
    /\ sockState \in SendOutcomes
    /\ socks' = SocksAfterSend(socks, sockState)
    /\ sockState' = "idle"
    /\ IF sockState = "ok" \/ Caught(sockState)
       THEN /\ pc' = AfterSend(pc)
            /\ UNCHANGED raised
       ELSE /\ pc' = "crashed"
            /\ raised' = [exc |-> sockState, line |-> 129]
    /\ UNCHANGED <<sensor_outdoor, sensor_indoor, cfg, events, log, elapsed, last, cycle,
                   indoor_sample, outdoor_sample, reads, inits, init_calls, sends>>

\* line 153
OutdoorTest ==
    /\ pc = "outdoor_test"
    /\ pc' = IF ReadsOutdoor(sensor_outdoor, indoor_sample)
             THEN "outdoor_read" ELSE "cycle_end"
    /\ UNCHANGED <<sensor_outdoor, sensor_indoor, cfg, events, log, raised>>
    /\ UNCHANGED loopVars

\* lines 107-111, 153-155, 163-168, 182-184: no try statement is around
\* sensor.get_temperature(), so every exception of it propagates
OutdoorPropagatesNever(outcome) == FALSE
OutdoorPropagates(outcome) == outcome # "ok"

\* line 154, get_outdoor_sample (line 111): an exception of the read is caught
\* nowhere; it leaves capture_sample, the with statement (the generator of
\* ensure_duration has no handler around its yield) and main
OutdoorRead ==
    /\ pc = "outdoor_read"
    /\ \E o \in OutdoorReadOutcomes, v \in OutdoorTemperatures, t \in 0..MaxReadTime :
          /\ reads' = Append(reads, [sensor |-> "outdoor", res |-> o, cfg |-> cfg])
          /\ elapsed' = elapsed + t
          /\ IF o = "ok"
             THEN /\ outdoor_sample' = <<Sample(v, None, None)>>
                  /\ pc' = "send_temperature_outdoor"
                  /\ UNCHANGED raised
             ELSE IF OutdoorPropagates(o)
             THEN /\ raised' = [exc |-> o, line |-> 111]
                  /\ pc' = "crashed"
                  /\ UNCHANGED outdoor_sample
             ELSE /\ pc' = "cycle_end"
                  /\ UNCHANGED <<raised, outdoor_sample>>
    /\ UNCHANGED <<sensor_outdoor, sensor_indoor, cfg, events, log, last, cycle,
                   indoor_sample, inits, init_calls, sends, socks, sockState>>

RECURSIVE SumSeq(_)
SumSeq(s) == IF s = <<>> THEN 0 ELSE Head(s) + SumSeq(Tail(s))

\* lines 165-168: capture_sample returned; the rest of ensure_duration
CycleEnd ==
    /\ pc = "cycle_end"
    /\ last' = [duration |-> elapsed,
                slept |-> IdleSleep(elapsed, SENSORS_SAMPLE_INTERVAL),
                gap |-> -1]
    /\ elapsed' = elapsed + SumSeq(IdleSleep(elapsed, SENSORS_SAMPLE_INTERVAL))
    /\ cycle' = IF cycle < MaxCycles THEN cycle + 1 ELSE cycle
    /\ pc' = "cycle_start"
    /\ UNCHANGED <<sensor_outdoor, sensor_indoor, cfg, events, log, raised,
                   indoor_sample, outdoor_sample, reads, inits, init_calls, sends, socks, sockState>>

\* line 181: initalize_indoor_sensor(sensor_indoor), at the default oversampling
MainInitialize ==
    /\ pc = "main_initialize"
    /\ cfg' = Initialize(cfg, OS_8X)
    /\ init_calls' = Append(init_calls, InitCall(OS_8X, cfg, Initialize(cfg, OS_8X)))
    /\ pc' = "cycle_start"
    /\ UNCHANGED <<sensor_outdoor, sensor_indoor, events, log, raised, elapsed, last,
                   cycle, indoor_sample, outdoor_sample, reads, inits, sends, socks,
                   sockState>>

\* capture_sample's two arguments.  With an indoor handle, fresh from its
\* constructor, the loop is entered through line 181; without one (which line
\* 181 does not accept) capture_sample is called in the loop of line 182 as it
\* stands.
InitLoop ==
    /\ sensor_outdoor \in {None, "w1therm"}
    /\ sensor_indoor \in {None, "bme680"}
    /\ pc = IF Truthy(sensor_indoor) THEN "main_initialize" ELSE "cycle_start"
    /\ cfg \in IF Truthy(sensor_indoor) THEN FreshCfgs ELSE {NoCfg}
    /\ events = <<>>
    /\ log = <<>>
    /\ raised = NoException
    /\ elapsed = 0
    /\ last = NoLast
    /\ cycle = 0
    /\ indoor_sample = <<>>
    /\ outdoor_sample = <<>>
    /\ reads = <<>>
    /\ inits = 0
    /\ init_calls = <<>>
    /\ sends = <<>>
    /\ socks = 0
    /\ sockState = "idle"

NextLoop ==
    \/ MainInitialize
    \/ CycleStart
    \/ IndoorTest
    \/ IndoorRead
    \/ IndoorBranch
    \/ SocketOpen
    \/ SendTo
    \/ SocketClose
    \/ OutdoorTest
    \/ OutdoorRead
    \/ CycleEnd

SpecLoop == InitLoop /\ [][NextLoop]_vars

\* one thread runs the statements in order, and each read, send and sleep returns
FairSpecLoop == SpecLoop /\ WF_vars(NextLoop)

----------------------------------------------------------------------------
(* initalize_indoor_sensor on its own, under SpecInit *)

\* calls of initalize_indoor_sensor followed on one handle
MaxInitCalls == 2

\* the oversampling settings of the BME680, OS_NONE to OS_16X
OversamplingLevels == 0..5

\* registers of a handle before a call: any gas status, any oversampling
PriorCfgs ==
    [gas : {DISABLE_GAS_MEAS, 1}, hum : OversamplingLevels, temp : OversamplingLevels,
     pres : OversamplingLevels]

\* lines 79-86: one call, with any valid oversampling
InitializeCall ==
    /\ pc = "initialize"
    /\ Len(init_calls) < MaxInitCalls
    /\ \E oversampling \in OversamplingLevels :
          /\ cfg' = Initialize(cfg, oversampling)
          /\ init_calls' = Append(init_calls, InitCall(oversampling, cfg, cfg'))
    /\ UNCHANGED <<pc, sensor_outdoor, sensor_indoor, events, log, raised, elapsed, last,
                   cycle, indoor_sample, outdoor_sample, reads, inits, sends, socks,
                   sockState>>

InitInitialize ==
    /\ pc = "initialize"
    /\ sensor_outdoor = None
    /\ sensor_indoor = "bme680"
    /\ cfg \in PriorCfgs
    /\ events = <<>>
    /\ log = <<>>
    /\ raised = NoException
    /\ elapsed = 0
    /\ last = NoLast
    /\ cycle = 0
    /\ indoor_sample = <<>>
    /\ outdoor_sample = <<>>
    /\ reads = <<>>
    /\ inits = 0
    /\ init_calls = <<>>
    /\ sends = <<>>
    /\ socks = 0
    /\ sockState = "idle"

NextInitialize == InitializeCall

SpecInit == InitInitialize /\ [][NextInitialize]_vars

----------------------------------------------------------------------------
(* Properties of the cycle, under SpecLoop and FairSpecLoop *)

\* capture_sample is over: it returned, or an exception left it
CaptureReturned == pc = "cycle_end"
CaptureOver == pc \in {"cycle_end", "crashed"}

IndoorReads == SelectSeq(reads, LAMBDA r : r.sensor = "indoor")
OutdoorSends == SelectSeq(sends, LAMBDA m : m.at = "send_temperature_outdoor")
IndoorSends == SelectSeq(sends, LAMBDA m : m.at # "send_temperature_outdoor")
SendFailed(m) == m.res \in {"unreachable", "timeout"}

C4_IndoorReadNeverRaises ==
    /\ raised.line # 94
    /\ Len(IndoorReads) <= 1
    /\ Len(IndoorReads) = 1 =>
          /\ IndoorReads[1].res = "OSError" =>
                /\ inits = 1
                /\ indoor_sample = <<>>
                /\ cfg = [gas |-> DISABLE_GAS_MEAS, hum |-> OS_8X, temp |-> OS_8X,
                          pres |-> OS_8X]
          /\ IndoorReads[1].res = "nodata" => (inits = 0 /\ indoor_sample = <<>>)
          /\ IndoorReads[1].res = "data" => (inits = 0 /\ indoor_sample # <<>>)
    /\ Len(IndoorReads) = 0 => inits = 0

\* get_sensor_data raised OSError and get_indoor_sample has returned None
C4_Witness ==
    /\ pc = "indoor_branch"
    /\ Len(IndoorReads) = 1
    /\ IndoorReads[1].res = "OSError"
    /\ inits = 1
    /\ indoor_sample = <<>>

\* C5, as claimed: a cycle with an outdoor handle makes exactly one send, of
\* the outdoor temperature, whatever the indoor part of the cycle did.
C5_OneOutdoorSendAlways ==
    (CaptureOver /\ Truthy(sensor_outdoor)) => Len(OutdoorSends) = 1

\* C5, amended: a cycle with an outdoor handle whose outdoor read returns
\* makes exactly one send of the outdoor temperature, whatever the indoor part
\* of the cycle did; a cycle whose outdoor read raises makes none.
C5_OneOutdoorSend ==
    /\ Len(OutdoorSends) <= 1
    /\ (CaptureReturned /\ Truthy(sensor_outdoor)) =>
          /\ Len(OutdoorSends) = 1
          /\ sends[Len(sends)] = OutdoorSends[1]
          /\ OutdoorSends[1].name = "temperature_outdoor"
          /\ OutdoorSends[1].value = outdoor_sample[1].temperature
    /\ (pc = "crashed" /\ raised.line = 111) => Len(OutdoorSends) = 0
    /\ (CaptureOver /\ ~Truthy(sensor_outdoor)) => Len(OutdoorSends) = 0

\* the outdoor send was made in a cycle without an indoor handle
C5_Witness ==
    /\ CaptureReturned
    /\ ~Truthy(sensor_indoor)
    /\ Truthy(sensor_outdoor)
    /\ Len(sends) = 1
    /\ sends[1].payload = "atmo.temperature_outdoor:-3.2|g"

\* C6, as claimed: a failed send leaves send_metric without an exception, and
\* in a cycle with an indoor Sample and an outdoor handle all four sends are
\* attempted, whichever of them fail.
C6_AllFourSendsAlways ==
    /\ raised.line # 129
    /\ (CaptureOver /\ indoor_sample # <<>> /\ Truthy(sensor_outdoor)) => Len(sends) = 4

\* C6, amended: a failed send leaves send_metric without an exception and the
\* next statement runs: with an indoor Sample the three indoor sends are all
\* attempted, and with an outdoor handle whose read returns the fourth is
\* too, whichever of them fail.
C6_SendFailureIsolated ==
    /\ raised.line # 129
    /\ (CaptureOver /\ indoor_sample # <<>>) =>
          /\ Len(sends) >= 3
          /\ sends[1].at = "send_humidity"
          /\ sends[2].at = "send_pressure"
          /\ sends[3].at = "send_temperature_indoor"
    /\ (CaptureReturned /\ indoor_sample # <<>> /\ Truthy(sensor_outdoor)) =>
          /\ Len(sends) = 4
          /\ sends[4].at = "send_temperature_outdoor"

\* all four sends were attempted and every one of them failed
C6_Witness ==
    /\ CaptureReturned
    /\ Len(sends) = 4
    /\ sends[1].res = "timeout"
    /\ sends[2].res = "unreachable"
    /\ sends[3].res = "timeout"
    /\ sends[4].res = "unreachable"

\* C7: the gap between the start of a cycle whose capture_sample took D and
\* the start of the next cycle is the interval T when D < T, the loop
\* sleeping exactly T - D, and is D, with no sleep, when D >= T.
C7_CycleGap ==
    last.gap # -1 =>
        IF last.duration < SENSORS_SAMPLE_INTERVAL
        THEN /\ last.gap = SENSORS_SAMPLE_INTERVAL
             /\ last.slept = <<SENSORS_SAMPLE_INTERVAL - last.duration>>
        ELSE /\ last.gap = last.duration
             /\ last.slept = <<>>

\* a cycle overran the interval and the next one started at once
C7_Witness ==
    /\ pc = "capture"
    /\ last.duration > SENSORS_SAMPLE_INTERVAL
    /\ last.gap = last.duration
    /\ last.slept = <<>>

\* C8: a cycle whose indoor read yields a Sample makes exactly three indoor
\* sends, of humidity, pressure and indoor temperature, each with the value
\* of that field of the Sample under the metric's name and the prefix.
C8_ThreeIndoorSends ==
    /\ Len(IndoorSends) <= 3
    /\ (CaptureOver /\ Truthy(sensor_indoor) /\ indoor_sample # <<>>) =>
          /\ Len(IndoorSends) = 3
          /\ \A i \in 1..3 : sends[i] = IndoorSends[i]
          /\ sends[1].payload = "atmo.humidity:" \o indoor_sample[1].humidity \o "|g"
          /\ sends[2].payload = "atmo.pressure:" \o indoor_sample[1].pressure \o "|g"
          /\ sends[3].payload =
                "atmo.temperature_indoor:" \o indoor_sample[1].temperature \o "|g"
          /\ indoor_sample[1] \in IndoorData

\* the three indoor sends of the Sample (21.5, 40.2, 1013.0) were made
C8_Witness ==
    /\ pc = "outdoor_test"
    /\ Len(sends) = 3
    /\ sends[1].payload = "atmo.humidity:40.2|g"
    /\ sends[2].payload = "atmo.pressure:1013.0|g"
    /\ sends[3].payload = "atmo.temperature_indoor:21.5|g"

\* C9: with both handles None a cycle reads no sensor and sends nothing.
C9_NothingWithoutHandles ==
    (~Truthy(sensor_indoor) /\ ~Truthy(sensor_outdoor)) =>
        /\ reads = <<>>
        /\ sends = <<>>
        /\ socks = 0
        /\ pc \notin SendPcs \cup {"indoor_read", "outdoor_read"}

\* two cycles have run with both handles None
C9_Witness ==
    /\ ~Truthy(sensor_indoor)
    /\ ~Truthy(sensor_outdoor)
    /\ pc = "cycle_start"
    /\ cycle >= 2

\* C10: a send closes the socket it opened whether sendto succeeded or not:
\* at most one socket is open, and none outside a send.
C10_SocketScoped ==
    /\ socks \in {0, 1}
    /\ socks = 1 <=> (pc \in SendPcs /\ sockState # "idle")

\* after a cycle all of whose four sends failed no socket is open
C10_Witness ==
    /\ pc = "cycle_start"
    /\ cycle >= 1
    /\ socks = 0
    /\ Len(sends) = 4
    /\ \A i \in 1..4 : SendFailed(sends[i])

----------------------------------------------------------------------------
(* Properties of initalize_indoor_sensor, under SpecInit *)

\* C11: initalize_indoor_sensor is idempotent: for every valid oversampling
\* and every prior state of the handle, a second call with the same
\* oversampling leaves the registers as the first call left them: gas
\* measurement disabled, humidity, temperature and pressure at that
\* oversampling.
C11_InitializeIdempotent ==
    /\ \A i \in 1..Len(init_calls) :
          init_calls[i].after =
              [gas |-> 0, hum |-> init_calls[i].oversampling,
               temp |-> init_calls[i].oversampling, pres |-> init_calls[i].oversampling]
    /\ \A i \in 2..Len(init_calls) :
          init_calls[i].oversampling = init_calls[i - 1].oversampling =>
              init_calls[i].after = init_calls[i - 1].after
    /\ Len(init_calls) > 0 => cfg = init_calls[Len(init_calls)].after
    /\ \A i \in 2..Len(init_calls) : init_calls[i].before = init_calls[i - 1].after

\* two calls at 16x on a handle that had gas measurement on and no oversampling
C11_Witness ==
    /\ Len(init_calls) = 2
    /\ init_calls[1].before = [gas |-> 1, hum |-> 0, temp |-> 0, pres |-> 0]
    /\ init_calls[1].oversampling = 5
    /\ init_calls[2].oversampling = 5
    /\ cfg = [gas |-> 0, hum |-> 5, temp |-> 5, pres |-> 5]

----------------------------------------------------------------------------
(* Further properties of the cycle, under SpecLoop *)

\* C12: an indoor send is skipped when its field of the Sample is None: no
\* datagram is sent for a None humidity or a None pressure, and the fields
\* that are there are still sent.
C12_AbsentFieldsSkipped ==
    /\ \A i \in 1..Len(sends) : sends[i].value # None
    /\ (CaptureOver /\ indoor_sample # <<>>) =>
          /\ \E i \in 1..Len(sends) : sends[i].at = "send_temperature_indoor"
          /\ indoor_sample[1].humidity # None =>
                \E i \in 1..Len(sends) : sends[i].at = "send_humidity"
          /\ indoor_sample[1].pressure # None =>
                \E i \in 1..Len(sends) : sends[i].at = "send_pressure"

OutdoorReads == SelectSeq(reads, LAMBDA r : r.sensor = "outdoor")

\* the field of this cycle's samples that the send_metric call at a position sends
FieldSent(at) ==
    CASE at = "send_humidity" -> indoor_sample[1].humidity
      [] at = "send_pressure" -> indoor_sample[1].pressure
      [] at = "send_temperature_indoor" -> indoor_sample[1].temperature
      [] at = "send_temperature_outdoor" -> outdoor_sample[1].temperature

\* C13: no send is retried and none is queued: a cycle makes at most four
\* sendto calls, at most one for each reading, and each of them sends a
\* reading this cycle's own read returned; nothing is sent for a sensor whose
\* read gave this cycle no Sample.
C13_NoRetryNoQueue ==
    /\ Len(sends) <= 4
    /\ \A i, j \in 1..Len(sends) : sends[i].at = sends[j].at => i = j
    /\ Len(IndoorSends) > 0 =>
          /\ Len(IndoorReads) = 1
          /\ IndoorReads[1].res = "data"
          /\ indoor_sample # <<>>
    /\ Len(OutdoorSends) > 0 =>
          /\ Len(OutdoorReads) = 1
          /\ OutdoorReads[1].res = "ok"
          /\ outdoor_sample # <<>>
    /\ \A i \in 1..Len(sends) : sends[i].value = FieldSent(sends[i].at)

\* a later cycle whose four sends all failed has ended with four sendto calls
C13_Witness ==
    /\ cycle >= 1
    /\ CaptureReturned
    /\ Len(sends) = 4
    /\ \A i \in 1..4 : sends[i].res = "unreachable"

UnableLogs == SelectSeq(log, LAMBDA l : l = "Unable to read data from the indoor sensor")

\* C14: when the indoor handle is present and get_indoor_sample returns None,
\* after an OSError or for want of new data, capture_sample logs the error
\* "Unable to read data from the indoor sensor" exactly once and makes none of
\* the three indoor sends in that cycle.
C14_AbsentIndoorLogged ==
    /\ Len(UnableLogs) <= 1
    /\ (Len(IndoorReads) = 1 /\ pc # "indoor_branch") =>
          IF IndoorReads[1].res \in {"nodata", "OSError"}
          THEN /\ Len(UnableLogs) = 1
               /\ Len(log) = 1
               /\ IndoorSends = <<>>
          ELSE Len(UnableLogs) = 0
    /\ Len(IndoorReads) = 0 => Len(UnableLogs) = 0

\* a cycle with both handles whose indoor read had no new data has ended with
\* the one log line and the outdoor send alone
C14_Witness ==
    /\ CaptureReturned
    /\ Len(IndoorReads) = 1
    /\ IndoorReads[1].res = "nodata"
    /\ log = <<"Unable to read data from the indoor sensor">>
    /\ Len(sends) = 1
    /\ sends[1].at = "send_temperature_outdoor"

\* C15: an exception of the outdoor read is neither caught nor retried by
\* get_outdoor_sample or capture_sample: it leaves capture_sample, and the
\* cycle makes no outdoor send.
C15_OutdoorFaultPropagates ==
    /\ Len(OutdoorReads) <= 1
    /\ (Len(OutdoorReads) = 1 /\ OutdoorReads[1].res # "ok") =>
          /\ pc = "crashed"
          /\ raised = [exc |-> OutdoorReads[1].res, line |-> 111]
          /\ OutdoorSends = <<>>
          /\ outdoor_sample = <<>>
    /\ (pc = "crashed" /\ raised.line = 111) =>
          (Len(OutdoorReads) = 1 /\ OutdoorReads[1].res # "ok")

\* the outdoor read raised after the three indoor sends of the cycle
C15_Witness ==
    /\ pc = "crashed"
    /\ raised = [exc |-> "SensorNotReadyError", line |-> 111]
    /\ Len(sends) = 3
    /\ OutdoorSends = <<>>

----------------------------------------------------------------------------
(* Further properties of the bootstrap, under Spec *)

OutdoorOpens == {i \in 1..Len(events) : events[i].op = "open_outdoor"}

\* C16: main opens the outdoor sensor exactly once, before the first open of
\* the indoor sensor, and never again, the retries of the indoor open
\* included; a failure of that open gives the handle None and no exception.
C16_OutdoorOpenedOnceFirst ==
    /\ Cardinality(OutdoorOpens) <= 1
    /\ (pc \notin {"import", "main"} /\ raised.line # 69) => OutdoorOpens = {1}
    /\ raised.exc \notin {"NoSensorFoundError", "KernelModuleLoadError"}
    /\ OutdoorOpens = {1} =>
          IF events[1].res = "ok"
          THEN sensor_outdoor = "w1therm"
          ELSE sensor_outdoor = None

\* the outdoor open failed once, and the indoor open was retried twice
C16_Witness ==
    /\ pc = "check"
    /\ events[1] = Event("open_outdoor", "NoSensorFoundError", 0)
    /\ sensor_outdoor = None
    /\ Failures(events) = 2
    /\ OutdoorOpens = {1}

----------------------------------------------------------------------------
(* Further properties of ensure_duration, under SpecLoop *)

\* C17: every sleep ensure_duration issues lasts more than 0 and at most the
\* interval T, whatever capture_sample took; so two consecutive cycles never
\* start less than T apart, also after a cycle that overran.
C17_IdleSleepBounded ==
    /\ Len(last.slept) <= 1
    /\ \A i \in 1..Len(last.slept) :
          /\ last.slept[i] > 0
          /\ last.slept[i] <= SENSORS_SAMPLE_INTERVAL
    /\ last.duration # -1 => last.duration >= 0
    /\ last.gap # -1 => last.gap >= SENSORS_SAMPLE_INTERVAL

\* in the third cycle or later, a cycle that took no time was followed by a
\* sleep of the whole interval
C17_Witness ==
    /\ pc = "capture"
    /\ cycle >= 2
    /\ last.duration = 0
    /\ last.slept = <<SENSORS_SAMPLE_INTERVAL>>
    /\ last.gap = SENSORS_SAMPLE_INTERVAL

----------------------------------------------------------------------------
(* The configured state of the indoor handle at its reads, under SpecLoop *)

Configured == [gas |-> 0, hum |-> 4, temp |-> 4, pres |-> 4]

\* C18: the indoor sensor is read only with its handle configured (gas
\* measurement off, the three oversamplings at 8x): line 181 configures it
\* before the first cycle, and a cycle whose indoor read raised OSError has
\* configured it again, at the default oversampling, before the next read.
C18_ReadsOnConfiguredHandle ==
    /\ pc = "indoor_read" => cfg = Configured
    /\ \A i \in 1..Len(IndoorReads) : IndoorReads[i].cfg = Configured
    /\ (Truthy(sensor_indoor) /\ pc # "main_initialize") => cfg = Configured
    /\ (Len(IndoorReads) = 1 /\ IndoorReads[1].res = "OSError") =>
          /\ Len(init_calls) = 1
          /\ init_calls[1].oversampling = 4
          /\ init_calls[1].after = Configured
    /\ (pc = "cycle_start" /\ cycle = 0 /\ Truthy(sensor_indoor)) =>
          /\ Len(init_calls) = 1
          /\ init_calls[1].before \in FreshCfgs
          /\ reads = <<>>

\* the read of a later cycle raised OSError and left the registers as after a
\* reset; the cycle has ended with the handle configured again
C18_Witness ==
    /\ pc = "cycle_start"
    /\ cycle >= 2
    /\ Len(IndoorReads) = 1
    /\ IndoorReads[1].res = "OSError"
    /\ IndoorReads[1].cfg = Configured
    /\ Len(init_calls) = 1
    /\ init_calls[1].before = [gas |-> 1, hum |-> 2, temp |-> 4, pres |-> 3]
    /\ cfg = Configured

====
